---- MODULE Spec2Model ----
(***************************************************************************)
(* CatSocks: a SOCKS5 front end that relays client connections through a   *)
(* Quectel cellular modem driven by AT commands over one serial port.      *)
(* The model follows src/CatSocks/CatSocks.py: main() boots the modem and  *)
(* starts one handle_client thread per accepted connection; all threads    *)
(* share the single QuectelModem object and its serial port.               *)
(*                                                                         *)
(* Serial data is modelled at the granularity of symbols.  A symbol is a   *)
(* pair <<kind, n>>: a protocol text ("OK", "+QIOPEN: 0,<n>", ...), the    *)
(* line terminator, the prompt byte or a plain data byte.  A read of k     *)
(* bytes takes k symbols.                                                  *)
(*                                                                         *)
(* CatScan: the port scanner of src/CatScan/CatScan.py, a sequential loop  *)
(* over hosts and ports on a serial port of its own (SpecScan).            *)
(***************************************************************************)
EXTENDS Integers, Sequences, FiniteSets, TLC

\* ------------------------------------------------------------------ bounds
NumClients == 2     \* client connections accepted by main()
MaxURC == 1         \* data notifications the modem emits in one run
MaxPayload == 2     \* longest notification payload
MaxSends == 1       \* non-empty client reads per connection
MaxData == 1        \* longest client read in the relay model
Jitter == 2         \* chunk loop alone: read lengths within this of a multiple
MaxHosts == 2       \* scanner: most hosts in the list
MaxPorts == 2       \* scanner: most entries in the port list

\* --------------------------------------------------------------- constants
MAX_CHUNK_SIZE == 1024
RECV_SIZE == 4096

Handlers == 1..NumClients

\* ----------------------------------------------------------------- symbols
NL == <<"NL", 0>>              \* "\r\n"
OK == <<"OK", 0>>
ERROR == <<"ERROR", 0>>
RDY == <<"RDY", 0>>
PROMPT == <<">", 0>>
SENDOK == <<"SEND OK", 0>>
SENDFAIL == <<"SEND FAIL", 0>>
CONNECT == <<"CONNECT", 0>>
CLOSED == <<"+QIURC: closed", 0>>
XBYTE == <<"x", 0>>
QIOPEN(code) == <<"+QIOPEN: 0,", code>>
RECV(n) == <<"+QIURC: recv", n>>

\* Bytes a remote peer may put into a payload: a plain byte, a line
\* terminator, and text that reads like a modem status line.
PayloadAlphabet == {XBYTE, NL, QIOPEN(0)}

SeqsUpTo(S, n) == UNION {[1..k -> S] : k \in 1..n}

Payloads == SeqsUpTo(PayloadAlphabet, MaxPayload)

ClientData == SeqsUpTo({XBYTE}, MaxData)

\* ------------------------------------------------------------ SOCKS5 bytes
METHOD_REPLY == << <<"05 00", 0>> >>
REPLY_SUCCEEDED == << <<"05 00 00 01", 0>> >>
REPLY_FAILED == << <<"05 01 00 01", 0>> >>

Greetings == {{0}, {2}, {0, 2}}
Commands == {1, 2}
AddrTypes == {1, 3, 4}

VARIABLES
  mainpc,     \* position of main(): "wait_rdy", "ate0", "serving"
  pc,         \* pc[h]: position of handler thread h
  rx,         \* serial input buffer: symbols the modem sent, not yet read
  methods,    \* methods[h]: method list read during negotiation
  hdr,        \* hdr[h]: <<cmd, atyp>> of the request header
  opened,     \* opened[h]: return value of open_tcp_direct_push
  clientOut,  \* clientOut[h]: what has been sent to the client socket
  data,       \* data[h]: bytes read from the client, being sent
  offset,     \* offset[h]: send offset into data[h]
  srdy,       \* srdy[h]: serial_fd was in rlist at the last select
  sends,      \* sends[h]: non-empty client reads so far
  line,       \* line[h]: the line readline() is accumulating
  need,       \* need[h]: announced payload length still to read
  payload,    \* payload[h]: payload bytes read so far
  mState,     \* modem: "boot", "idle", "connecting", "open", "rclosed", "dead"
  mData,      \* modem is in data mode, waiting for a send payload
  mOwed,      \* modem: response units still to be emitted, in order
  mOwner,     \* handler whose open command the modem connection answers
  urcs,       \* data notifications emitted so far
  emitted,    \* emitted[h]: payloads announced to h while it was relaying
  wrote,      \* wrote[h]: what handler h has written to the serial port
  prev,       \* prev[h]: the handlers that had ended when h wrote its open
  csock,      \* csock[h]: client_sock of handler h, "open" or "closed"
  cpc,        \* chunk loop alone: "recv", "loop", "sent", "raised", "eof"
  cdata,      \* chunk loop alone: the bytes recv(4096) returned
  coffset,    \* chunk loop alone: offset
  csent,      \* chunk loop alone: the chunks handed to send_raw, in order
  spc,        \* scanner: "host", "port", "open_cmd", "open_read",
              \*          "close_cmd", "close_read", "eval", "sleep", "done"
  ips,        \* scanner: the hosts to scan
  ports,      \* scanner: the port texts to scan on each host
  ipi,        \* scanner: index in ips of the loop variable ip
  pti,        \* scanner: index in ports of the loop variable port
  seen_valid, \* scanner: seen_valid
  sresp,      \* scanner: resp, the answer read after the open command
  srx,        \* scanner: serial input buffer
  sconn,      \* scanner's modem: "idle", "connecting", "open"
  stx,        \* scanner: the commands written to the serial port, in order
  probed,     \* scanner: the targets <<ip, port_int>> probed so far
  codes,      \* scanner: code2 of each port probed on the current host
  hostOut     \* scanner: what was printed for each of those ports

hvars == <<pc, methods, hdr, opened, clientOut, data, offset, srdy, sends,
           line, need, payload, wrote, prev, csock>>
mvars == <<mState, mData, mOwed, mOwner>>
uvars == <<urcs, emitted>>
cvars == <<cpc, cdata, coffset, csent>>
svars == <<spc, ips, ports, ipi, pti, seen_valid, sresp, srx, sconn, stx,
           probed, codes, hostOut>>
ovars == <<cvars, svars>>
vars == <<mainpc, rx, hvars, mvars, uvars, ovars>>

\* ------------------------------------------------------------ text helpers
Min(S) == CHOOSE x \in S : \A y \in S : x <= y

Contains(s, sym) == \E i \in 1..Len(s) : s[i] = sym

HasKind(s, kind) == \E i \in 1..Len(s) : s[i][1] = kind

\* _send_at: "OK" in resp or "ERROR" in resp ("SEND OK" contains "OK").
HasTerminal(resp) ==
  HasKind(resp, "OK") \/ HasKind(resp, "SEND OK") \/ HasKind(resp, "ERROR")

\* str.splitlines(): the lines of s, without their terminators, as the set of
\* start positions; a trailing partial line counts as a line.
LineStarts(s) ==
  IF s = <<>> THEN {}
  ELSE {1} \cup {i + 1 : i \in {j \in 1..(Len(s) - 1) : s[j] = NL}}

LineAt(s, p) ==
  LET ends == {i \in p..Len(s) : s[i] = NL} \cup {Len(s) + 1}
  IN  SubSeq(s, p, Min(ends) - 1)

\* The part of s after its last line terminator.
Carry(s) ==
  LET nls == {i \in 1..Len(s) : s[i] = NL}
  IN  IF nls = {} THEN s
      ELSE SubSeq(s, (CHOOSE i \in nls : \A j \in nls : j <= i) + 1, Len(s))

\* open_tcp_direct_push: the two tests applied to one line.
LineVerdict(l) ==
  IF Contains(l, QIOPEN(0)) \/ l = <<CONNECT>> THEN "ok"
  ELSE IF HasKind(l, "+QIOPEN: 0,") THEN "fail"
  ELSE "none"

\* open_tcp_direct_push: the first line of the buffer that decides.
OpenScan(buffer) ==
  LET hits == {p \in LineStarts(buffer) : LineVerdict(LineAt(buffer, p)) # "none"}
  IN  IF hits = {} THEN "none" ELSE LineVerdict(LineAt(buffer, Min(hits)))

\* handle_client: line.startswith('+QIURC') and 'recv' in line
IsRecvLine(l) ==
  /\ l # <<>>
  /\ l[1][1] \in {"+QIURC: recv", "+QIURC: closed"}
  /\ HasKind(l, "+QIURC: recv")

\* handle_client: 'closed' in line
IsClosedLine(l) == HasKind(l, "+QIURC: closed")

\* handle_client: int(line.split(',')[-1]); -1 stands for ValueError.  Only
\* the notification and result texts carry commas, and each ends in a number.
LengthField(l) ==
  LET last == l[Len(l)]
  IN  IF last[1] \in {"+QIURC: recv", "+QIOPEN: 0,", "+QIURC: closed"}
      THEN last[2] ELSE -1

\* A slice that forgets the ceiling: data[offset:]
ChunkUncapped(d, off) == SubSeq(d, off + 1, Len(d))

\* handle_client: data[offset:offset+MAX_CHUNK_SIZE]
Chunk(d, off) ==
  SubSeq(d, off + 1, IF off + MAX_CHUNK_SIZE < Len(d) THEN off + MAX_CHUNK_SIZE ELSE Len(d))

\* ------------------------------------------------------------------- modem
SendResults == {<<SENDOK, NL>>, <<SENDFAIL, NL>>}

\* The modem's reaction to one write on the serial port by handler h (0 for
\* main).  In data mode whatever arrives is taken as the send payload.
ModemOnWrite(unit, h) ==
  IF mState \in {"boot", "dead"} THEN UNCHANGED mvars
  ELSE IF mData THEN
    /\ mData' = FALSE
    /\ \E r \in SendResults : mOwed' = Append(mOwed, r)
    /\ UNCHANGED <<mState, mOwner>>
  ELSE IF unit = "OPEN" THEN
    IF mState = "idle"
    THEN /\ mState' = "connecting"
         /\ mOwner' = h
         /\ mOwed' = Append(mOwed, <<OK, NL>>)
         /\ UNCHANGED mData
    ELSE /\ mOwed' = mOwed \o << <<OK, NL>>, <<QIOPEN(563), NL>> >>
         /\ UNCHANGED <<mState, mOwner, mData>>
  ELSE IF unit = "SEND" THEN
    IF mState = "open"
    THEN /\ mData' = TRUE
         /\ mOwed' = Append(mOwed, <<PROMPT>>)
         /\ UNCHANGED <<mState, mOwner>>
    ELSE /\ mOwed' = Append(mOwed, <<ERROR, NL>>)
         /\ UNCHANGED <<mState, mOwner, mData>>
  ELSE IF unit = "CLOSE" THEN
    /\ mState' = "idle"
    /\ mOwner' = 0
    /\ mOwed' = Append(mOwed, <<OK, NL>>)
    /\ UNCHANGED mData
  ELSE IF unit = "ATE0" THEN
    /\ mOwed' = Append(mOwed, <<OK, NL>>)
    /\ UNCHANGED <<mState, mOwner, mData>>
  ELSE UNCHANGED mvars     \* payload bytes in command mode: no answer

\* The modem has one output stream: a result or notification goes out only
\* after the responses it owed before.
ModemBoot ==
  /\ mState = "boot"
  /\ mState' = "idle"
  /\ rx' = rx \o <<RDY, NL>>
  /\ UNCHANGED <<mainpc, hvars, mData, mOwed, mOwner, uvars>>
  /\ UNCHANGED ovars

ModemEmit ==
  /\ mState # "dead"
  /\ mOwed # <<>>
  /\ rx' = rx \o Head(mOwed)
  /\ mOwed' = Tail(mOwed)
  /\ UNCHANGED <<mainpc, hvars, mState, mData, mOwner, uvars>>
  /\ UNCHANGED ovars

ModemOpenResult ==
  /\ mState = "connecting"
  /\ mOwed = <<>>
  /\ \/ /\ mState' = "open"
        /\ rx' = rx \o <<QIOPEN(0), NL>>
        /\ UNCHANGED mOwner
     \/ /\ mState' = "idle"
        /\ mOwner' = 0
        /\ rx' = rx \o <<QIOPEN(566), NL>>
  /\ UNCHANGED <<mainpc, hvars, mData, mOwed, uvars>>
  /\ UNCHANGED ovars

Relaying == {"select", "send_cmd", "prompt", "ack", "readline", "payload"}

\* The bytes of payload p as they arrive on the connection that handler g's
\* open command made: a data byte carries the connection it came from.
FromConn(p, g) ==
  [i \in DOMAIN p |-> IF p[i] = XBYTE THEN <<"x", g>> ELSE p[i]]

ModemNotify ==
  /\ mState = "open"
  /\ mOwed = <<>>
  /\ urcs < MaxURC
  /\ \E p \in {FromConn(q, mOwner) : q \in Payloads} :
       /\ rx' = rx \o <<RECV(Len(p)), NL>> \o p
       /\ emitted' = IF pc[mOwner] \in Relaying
                     THEN [emitted EXCEPT ![mOwner] = Append(@, p)]
                     ELSE emitted
  /\ urcs' = urcs + 1
  /\ UNCHANGED <<mainpc, hvars, mvars>>
  /\ UNCHANGED ovars

ModemRemoteClose ==
  /\ mState = "open"
  /\ mOwed = <<>>
  /\ mState' = "rclosed"
  /\ rx' = rx \o <<CLOSED, NL>>
  /\ UNCHANGED <<mainpc, hvars, mData, mOwed, mOwner, uvars>>
  /\ UNCHANGED ovars

ModemDie ==
  /\ mState # "dead"
  /\ mState' = "dead"
  /\ mOwed' = <<>>
  /\ mData' = FALSE
  /\ UNCHANGED <<mainpc, rx, hvars, mOwner, uvars>>
  /\ UNCHANGED ovars

\* -------------------------------------------------------------------- main
\* QuectelModem._wait_for_rdy: read lines until one is "RDY".  No other
\* thread exists yet, so a whole line is taken in one step.
MainWaitRdy ==
  /\ mainpc = "wait_rdy"
  /\ Contains(rx, NL)
  /\ LET l == LineAt(rx, 1)
     IN  /\ rx' = SubSeq(rx, Len(l) + 2, Len(rx))
         /\ mainpc' = IF l = <<RDY>> THEN "ate0_cmd" ELSE "wait_rdy"
  /\ UNCHANGED <<hvars, mvars, uvars>>
  /\ UNCHANGED ovars

\* _send_at("ATE0"): reset_input_buffer() and write().
MainAte0 ==
  /\ mainpc = "ate0_cmd"
  /\ rx' = <<>>
  /\ ModemOnWrite("ATE0", 0)
  /\ mainpc' = "ate0"
  /\ UNCHANGED <<hvars, uvars>>
  /\ UNCHANGED ovars

\* _send_at("ATE0"): the read loop.  read(in_waiting or 1) blocks until a
\* byte is there and takes all that is waiting; the deadline is looked at
\* only after a read has returned.
MainAtRead ==
  /\ mainpc = "ate0"
  /\ rx # <<>>
  /\ rx' = <<>>
  /\ \/ mainpc' = "serving"
     \/ ~HasTerminal(rx) /\ mainpc' = "ate0"
  /\ UNCHANGED <<hvars, mvars, uvars>>
  /\ UNCHANGED ovars

\* A handler that closes the client socket at the end of the try block
\* only, after close_tcp(), and has no finally clause.
CloseOnlyAfterRelay(h) ==
  csock' = [csock EXCEPT ![h] =
              IF pc'[h] = "done" /\ pc[h] = "close_at" THEN "closed" ELSE @]

\* handle_client's finally clause: however the handler leaves, by return or
\* by exception, client_sock.close() runs.
Finally(h) ==
  csock' = [csock EXCEPT ![h] = IF pc'[h] = "done" THEN "closed" ELSE @]

\* main: accept() and Thread(target=handle_client).start().  Connections are
\* numbered in the order the accept loop takes them.
Accept(h) ==
  /\ mainpc = "serving"
  /\ pc[h] = "idle"
  /\ \A g \in Handlers : g < h => pc[g] # "idle"
  /\ pc' = [pc EXCEPT ![h] = "greet"]
  /\ UNCHANGED <<mainpc, rx, methods, hdr, opened, clientOut, data, offset,
                 srdy, sends, line, need, payload, mvars, uvars>>
  /\ UNCHANGED <<wrote, prev>>
  /\ Finally(h)
  /\ UNCHANGED ovars

\* ----------------------------------------------------------- handle_client
\* Method negotiation: recv(2), recv(nmethods), sendall(05 00).  A short
\* read makes struct.unpack raise; the finally clause closes the client.
Greet(h) ==
  /\ pc[h] = "greet"
  /\ \/ /\ pc' = [pc EXCEPT ![h] = "done"]
        /\ UNCHANGED <<methods, clientOut>>
     \/ \E g \in Greetings :
          /\ methods' = [methods EXCEPT ![h] = g]
          /\ clientOut' = [clientOut EXCEPT ![h] = Append(@, METHOD_REPLY)]
          /\ pc' = [pc EXCEPT ![h] = "request"]
  /\ UNCHANGED <<mainpc, rx, hdr, opened, data, offset, srdy, sends, line,
                 need, payload, mvars, uvars>>
  /\ UNCHANGED <<wrote, prev>>
  /\ Finally(h)
  /\ UNCHANGED ovars

\* The CONNECT request: recv(4), the address, the port.  The method list
\* read before is not kept by the code.
Request(h) ==
  /\ pc[h] = "request"
  /\ methods' = [methods EXCEPT ![h] = {}]
  /\ \/ /\ pc' = [pc EXCEPT ![h] = "done"]
        /\ UNCHANGED hdr
     \/ \E c \in Commands, a \in AddrTypes :
          /\ hdr' = [hdr EXCEPT ![h] = <<c, a>>]
          /\ pc' = [pc EXCEPT ![h] =
                      IF c # 1 THEN "done"
                      ELSE IF a \in {1, 3} THEN "open_cmd"
                      ELSE "done"]
  /\ UNCHANGED <<mainpc, rx, opened, clientOut, data, offset, srdy,
                 sends, line, need, payload, mvars, uvars>>
  /\ UNCHANGED <<wrote, prev>>
  /\ Finally(h)
  /\ UNCHANGED ovars

\* open_tcp_direct_push -> _send_at(AT+QIOPEN): reset_input_buffer(), write().
\* cmd and atyp are not read again once the address is parsed.
OpenCmd(h) ==
  /\ pc[h] = "open_cmd"
  /\ rx' = <<>>
  /\ ModemOnWrite("OPEN", h)
  /\ pc' = [pc EXCEPT ![h] = "open_at"]
  /\ hdr' = [hdr EXCEPT ![h] = <<0, 0>>]
  /\ UNCHANGED <<mainpc, methods, opened, clientOut, data, offset, srdy,
                 sends, line, need, payload, uvars>>
  /\ wrote' = [wrote EXCEPT ![h] = Append(@, "OPEN")]
  /\ prev' = [prev EXCEPT ![h] = {g \in Handlers : pc[g] = "done"}]
  /\ Finally(h)
  /\ UNCHANGED ovars

\* An open that takes the OK of the command for the result of the connect.
AfterAtSkipsWait(p) == IF p = "open_at" THEN "select" ELSE "done"

AfterAt(p) == IF p = "open_at" THEN "open_wait" ELSE "done"

\* _send_at: the read loop, for the open and the close command.  The
\* response is returned to a caller that ignores it.
AtRead(h) ==
  /\ pc[h] \in {"open_at", "close_at"}
  /\ rx # <<>>
  /\ rx' = <<>>
  /\ \/ pc' = [pc EXCEPT ![h] = AfterAt(pc[h])]
     \/ ~HasTerminal(rx) /\ UNCHANGED pc
  /\ UNCHANGED <<mainpc, methods, hdr, opened, clientOut, data, offset, srdy,
                 sends, line, need, payload, mvars, uvars>>
  /\ UNCHANGED <<wrote, prev>>
  /\ Finally(h)
  /\ UNCHANGED ovars

\* A failure branch that sends its reply and forgets to return.
OpenReturnsFallsThrough(h, r) ==
  /\ opened' = [opened EXCEPT ![h] = r]
  /\ clientOut' = [clientOut EXCEPT ![h] =
                     Append(@, IF r = "ok" THEN REPLY_SUCCEEDED ELSE REPLY_FAILED)
                     \o (IF r = "ok" THEN <<>> ELSE <<REPLY_SUCCEEDED>>)]
  /\ pc' = [pc EXCEPT ![h] = "select"]
  /\ line' = [line EXCEPT ![h] = <<>>]

\* handle_client after open_tcp_direct_push returned r: the SOCKS5 reply, and
\* on failure the return through the finally clause.
OpenReturns(h, r) ==
  /\ opened' = [opened EXCEPT ![h] = r]
  /\ clientOut' = [clientOut EXCEPT ![h] =
                     Append(@, IF r = "ok" THEN REPLY_SUCCEEDED ELSE REPLY_FAILED)]
  /\ pc' = [pc EXCEPT ![h] = IF r = "ok" THEN "select" ELSE "done"]
  /\ line' = [line EXCEPT ![h] = <<>>]

\* open_tcp_direct_push: one round of the polling loop that finds bytes
\* waiting.  line[h] holds the unterminated tail of the buffer.
OpenPoll(h) ==
  /\ pc[h] = "open_wait"
  /\ rx # <<>>
  /\ rx' = <<>>
  /\ LET buffer == line[h] \o rx
         r == OpenScan(buffer)
     IN  IF r = "none"
         THEN /\ line' = [line EXCEPT ![h] = Carry(buffer)]
              /\ UNCHANGED <<pc, opened, clientOut>>
         ELSE OpenReturns(h, r)
  /\ UNCHANGED <<mainpc, methods, hdr, data, offset, srdy, sends, need,
                 payload, mvars, uvars>>
  /\ UNCHANGED <<wrote, prev>>
  /\ Finally(h)
  /\ UNCHANGED ovars

\* open_tcp_direct_push: the 10 s deadline passes.
OpenTimeout(h) ==
  /\ pc[h] = "open_wait"
  /\ OpenReturns(h, "fail")
  /\ UNCHANGED <<mainpc, rx, methods, hdr, data, offset, srdy, sends, need,
                 payload, mvars, uvars>>
  /\ UNCHANGED <<wrote, prev>>
  /\ Finally(h)
  /\ UNCHANGED ovars

\* Relay loop: select() returns with the client readable, and recv(4096)
\* yields end of stream or data; serial_fd is in rlist when bytes wait.
SelectClient(h) ==
  /\ pc[h] = "select"
  /\ \/ /\ pc' = [pc EXCEPT ![h] = "close_cmd"]
        /\ UNCHANGED <<data, offset, srdy, sends>>
     \/ /\ sends[h] < MaxSends
        /\ \E d \in ClientData : data' = [data EXCEPT ![h] = d]
        /\ offset' = [offset EXCEPT ![h] = 0]
        /\ srdy' = [srdy EXCEPT ![h] = (rx # <<>>)]
        /\ sends' = [sends EXCEPT ![h] = @ + 1]
        /\ pc' = [pc EXCEPT ![h] = "send_cmd"]
  /\ UNCHANGED <<mainpc, rx, methods, hdr, opened, clientOut, line, need,
                 payload, mvars, uvars>>
  /\ UNCHANGED <<wrote, prev>>
  /\ Finally(h)
  /\ UNCHANGED ovars

\* Relay loop: select() returns with only the serial port readable.
SelectSerial(h) ==
  /\ pc[h] = "select"
  /\ rx # <<>>
  /\ pc' = [pc EXCEPT ![h] = "readline"]
  /\ UNCHANGED <<mainpc, rx, methods, hdr, opened, clientOut, data, offset,
                 srdy, sends, line, need, payload, mvars, uvars>>
  /\ UNCHANGED <<wrote, prev>>
  /\ Finally(h)
  /\ UNCHANGED ovars

\* send_raw: write AT+QISEND=<id>,<len>.
SendCmd(h) ==
  /\ pc[h] = "send_cmd"
  /\ ModemOnWrite("SEND", h)
  /\ pc' = [pc EXCEPT ![h] = "prompt"]
  /\ UNCHANGED <<mainpc, rx, methods, hdr, opened, clientOut, data, offset,
                 srdy, sends, line, need, payload, uvars>>
  /\ wrote' = [wrote EXCEPT ![h] = Append(@, "SEND")]
  /\ UNCHANGED prev
  /\ Finally(h)
  /\ UNCHANGED ovars

\* _wait_for_prompt: read(1).  On '>' send_raw writes the chunk and Ctrl-Z.
\* Any other byte is dropped; the deadline is looked at after each such read,
\* and TimeoutError leaves handle_client through the finally clause.
PromptRead(h) ==
  /\ pc[h] = "prompt"
  /\ rx # <<>>
  /\ rx' = Tail(rx)
  /\ IF Head(rx) = PROMPT
     THEN /\ ModemOnWrite("DATA", h)
          /\ wrote' = [wrote EXCEPT ![h] = Append(@, "DATA")]
          /\ pc' = [pc EXCEPT ![h] = "ack"]
     ELSE /\ UNCHANGED <<mvars, wrote>>
          /\ \/ UNCHANGED pc
             \/ pc' = [pc EXCEPT ![h] = "done"]
  /\ UNCHANGED <<mainpc, methods, hdr, opened, clientOut, data, offset, srdy,
                 sends, line, need, payload, uvars>>
  /\ UNCHANGED prev
  /\ Finally(h)
  /\ UNCHANGED ovars

\* An acknowledgment read that looks into the line and accepts "SEND OK" only.
AckReadStrict(h) ==
  /\ pc[h] = "ack"
  /\ rx # <<>>
  /\ rx' = Tail(rx)
  /\ IF Head(rx) = NL /\ HasKind(line[h], "SEND OK")
     THEN LET off == offset[h] + Len(Chunk(data[h], offset[h]))
          IN  /\ offset' = [offset EXCEPT ![h] = off]
              /\ line' = [line EXCEPT ![h] = <<>>]
              /\ pc' = [pc EXCEPT ![h] =
                          IF off < Len(data[h]) THEN "send_cmd"
                          ELSE IF srdy[h] THEN "readline"
                          ELSE "select"]
     ELSE /\ UNCHANGED offset
          /\ \/ /\ Head(rx) # NL
                /\ line' = [line EXCEPT ![h] = Append(@, Head(rx))]
                /\ UNCHANGED pc
             \/ /\ line' = [line EXCEPT ![h] = <<>>]
                /\ pc' = [pc EXCEPT ![h] = "done"]
  /\ UNCHANGED <<mainpc, methods, hdr, opened, clientOut, data, srdy, sends,
                 need, payload, mvars, uvars>>
  /\ UNCHANGED <<wrote, prev>>
  /\ Finally(h)
  /\ UNCHANGED ovars

\* send_raw step 4: read(1), line += ch, until line ends with "\r\n"; then
\* the chunk loop of handle_client advances.  line is local to send_raw.
AckRead(h) ==
  /\ pc[h] = "ack"
  /\ rx # <<>>
  /\ rx' = Tail(rx)
  /\ IF Head(rx) = NL
     THEN LET off == offset[h] + Len(Chunk(data[h], offset[h]))
          IN  /\ offset' = [offset EXCEPT ![h] = off]
              /\ line' = [line EXCEPT ![h] = <<>>]
              /\ pc' = [pc EXCEPT ![h] =
                          IF off < Len(data[h]) THEN "send_cmd"
                          ELSE IF srdy[h] THEN "readline"
                          ELSE "select"]
     ELSE /\ UNCHANGED offset
          /\ \/ /\ line' = [line EXCEPT ![h] = Append(@, Head(rx))]
                /\ UNCHANGED pc
             \/ /\ line' = [line EXCEPT ![h] = <<>>]
                /\ pc' = [pc EXCEPT ![h] = "done"]
  /\ UNCHANGED <<mainpc, methods, hdr, opened, clientOut, data, srdy, sends,
                 need, payload, mvars, uvars>>
  /\ UNCHANGED <<wrote, prev>>
  /\ Finally(h)
  /\ UNCHANGED ovars

\* A dispatch that ends the relay on any line it does not know.
AfterLineStrict(l) ==
  IF IsRecvLine(l)
  THEN IF LengthField(l) < 0 THEN "done"
       ELSE IF LengthField(l) = 0 THEN "select"
       ELSE "payload"
  ELSE "close_cmd"

\* What handle_client does with a complete line.
AfterLine(l) ==
  IF IsRecvLine(l)
  THEN IF LengthField(l) < 0 THEN "done"        \* ValueError
       ELSE IF LengthField(l) = 0 THEN "select" \* sendall(b'')
       ELSE "payload"
  ELSE IF IsClosedLine(l) THEN "close_cmd"
  ELSE "select"

\* modem.ser.readline(): one byte at a time up to the line terminator.
LineRead(h) ==
  /\ pc[h] = "readline"
  /\ rx # <<>>
  /\ rx' = Tail(rx)
  /\ IF Head(rx) # NL
     THEN /\ line' = [line EXCEPT ![h] = Append(@, Head(rx))]
          /\ UNCHANGED <<pc, need>>
     ELSE /\ line' = [line EXCEPT ![h] = <<>>]
          /\ pc' = [pc EXCEPT ![h] = AfterLine(line[h])]
          /\ need' = [need EXCEPT ![h] =
                        IF AfterLine(line[h]) = "payload"
                        THEN LengthField(line[h]) ELSE 0]
  /\ UNCHANGED <<mainpc, methods, hdr, opened, clientOut, data, offset, srdy,
                 sends, payload, mvars, uvars>>
  /\ UNCHANGED <<wrote, prev>>
  /\ Finally(h)
  /\ UNCHANGED ovars

\* The payload loop: ser.read(length - len(payload)) takes what is waiting,
\* up to the bytes still missing; the full payload goes to the client.
PayloadRead(h) ==
  /\ pc[h] = "payload"
  /\ rx # <<>>
  /\ LET k == IF need[h] < Len(rx) THEN need[h] ELSE Len(rx)
         got == payload[h] \o SubSeq(rx, 1, k)
     IN  /\ rx' = SubSeq(rx, k + 1, Len(rx))
         /\ need' = [need EXCEPT ![h] = @ - k]
         /\ IF need[h] = k
            THEN /\ clientOut' = [clientOut EXCEPT ![h] = Append(@, got)]
                 /\ payload' = [payload EXCEPT ![h] = <<>>]
                 /\ pc' = [pc EXCEPT ![h] = "select"]
            ELSE /\ payload' = [payload EXCEPT ![h] = got]
                 /\ UNCHANGED <<pc, clientOut>>
  /\ UNCHANGED <<mainpc, methods, hdr, opened, data, offset, srdy, sends,
                 line, mvars, uvars>>
  /\ UNCHANGED <<wrote, prev>>
  /\ Finally(h)
  /\ UNCHANGED ovars

\* close_tcp -> _send_at(AT+QICLOSE): reset_input_buffer(), write().
CloseCmd(h) ==
  /\ pc[h] = "close_cmd"
  /\ rx' = <<>>
  /\ ModemOnWrite("CLOSE", h)
  /\ pc' = [pc EXCEPT ![h] = "close_at"]
  /\ UNCHANGED <<mainpc, methods, hdr, opened, clientOut, data, offset, srdy,
                 sends, line, need, payload, uvars>>
  /\ wrote' = [wrote EXCEPT ![h] = Append(@, "CLOSE")]
  /\ UNCHANGED prev
  /\ Finally(h)
  /\ UNCHANGED ovars

\* ----------------------------------------------------------- specification
RelayInit ==
  /\ mainpc = "wait_rdy"
  /\ pc = [h \in Handlers |-> "idle"]
  /\ rx = <<>>
  /\ methods = [h \in Handlers |-> {}]
  /\ hdr = [h \in Handlers |-> <<0, 0>>]
  /\ opened = [h \in Handlers |-> "none"]
  /\ clientOut = [h \in Handlers |-> <<>>]
  /\ data = [h \in Handlers |-> <<>>]
  /\ offset = [h \in Handlers |-> 0]
  /\ srdy = [h \in Handlers |-> FALSE]
  /\ sends = [h \in Handlers |-> 0]
  /\ line = [h \in Handlers |-> <<>>]
  /\ need = [h \in Handlers |-> 0]
  /\ payload = [h \in Handlers |-> <<>>]
  /\ mState = "boot"
  /\ mData = FALSE
  /\ mOwed = <<>>
  /\ mOwner = 0
  /\ urcs = 0
  /\ emitted = [h \in Handlers |-> <<>>]
  /\ wrote = [h \in Handlers |-> <<>>]
  /\ prev = [h \in Handlers |-> {}]
  /\ csock = [h \in Handlers |-> "open"]

ChunkIdle ==
  /\ cpc = "recv"
  /\ cdata = <<>>
  /\ coffset = 0
  /\ csent = <<>>

ScanStart ==
  /\ spc = "host"
  /\ ipi = 1
  /\ pti = 1
  /\ seen_valid = FALSE
  /\ sresp = <<>>
  /\ srx = <<>>
  /\ sconn = "idle"
  /\ stx = <<>>
  /\ probed = <<>>
  /\ codes = <<>>
  /\ hostOut = <<>>

ScanIdle ==
  /\ ScanStart
  /\ ips = <<>>
  /\ ports = <<>>

Init == RelayInit /\ ChunkIdle /\ ScanIdle

Step(h) ==
  \/ Accept(h)
  \/ Greet(h)
  \/ Request(h)
  \/ OpenCmd(h)
  \/ AtRead(h)
  \/ OpenPoll(h)
  \/ OpenTimeout(h)
  \/ SelectClient(h)
  \/ SelectSerial(h)
  \/ SendCmd(h)
  \/ PromptRead(h)
  \/ AckRead(h)
  \/ LineRead(h)
  \/ PayloadRead(h)
  \/ CloseCmd(h)

Modem ==
  \/ ModemBoot
  \/ ModemEmit
  \/ ModemOpenResult
  \/ ModemNotify
  \/ ModemRemoteClose
  \/ ModemDie

Next ==
  \/ MainWaitRdy
  \/ MainAte0
  \/ MainAtRead
  \/ \E h \in Handlers : Step(h)
  \/ Modem

Spec == Init /\ [][Next]_vars

\* ----------------------------------------------- the chunk loop on its own
\* handle_client lines 204-213 over reads of realistic length.  The bytes
\* are numbered, so that any loss, repetition or reordering shows.
Bytes(n) == [i \in 1..n |-> <<"b", i>>]

ChunkLens ==
  {n \in 0..RECV_SIZE :
     \E k \in 0..(RECV_SIZE \div MAX_CHUNK_SIZE), d \in (0 - Jitter)..Jitter :
        n = k * MAX_CHUNK_SIZE + d}

\* data = client_sock.recv(4096); if not data: break; offset = 0
ChunkRecv ==
  /\ cpc = "recv"
  /\ cpc' = IF cdata = <<>> THEN "eof" ELSE "loop"
  /\ coffset' = 0
  /\ UNCHANGED <<cdata, csent>>
  /\ UNCHANGED <<mainpc, rx, hvars, mvars, uvars, svars>>

\* One round of "while offset < len(data)": slice, advance, send_raw(chunk),
\* which returns or raises TimeoutError.
ChunkSend ==
  /\ cpc = "loop"
  /\ coffset < Len(cdata)
  /\ LET chunk == Chunk(cdata, coffset)
     IN  /\ coffset' = coffset + Len(chunk)
         /\ csent' = Append(csent, chunk)
  /\ \/ UNCHANGED cpc
     \/ cpc' = "raised"
  /\ UNCHANGED cdata
  /\ UNCHANGED <<mainpc, rx, hvars, mvars, uvars, svars>>

\* "while offset < len(data)" ends.
ChunkDone ==
  /\ cpc = "loop"
  /\ coffset >= Len(cdata)
  /\ cpc' = "sent"
  /\ UNCHANGED <<cdata, coffset, csent>>
  /\ UNCHANGED <<mainpc, rx, hvars, mvars, uvars, svars>>

ChunkInit ==
  /\ RelayInit
  /\ ScanIdle
  /\ cpc = "recv"
  /\ cdata \in {Bytes(n) : n \in ChunkLens}
  /\ coffset = 0
  /\ csent = <<>>

ChunkNext == ChunkRecv \/ ChunkSend \/ ChunkDone

SpecChunk == ChunkInit /\ [][ChunkNext]_vars

\* ------------------------------------------------------ the scanner (CatScan)
\* Entries of the port list: text from the command line or a file.
PortTexts == {"80", "http"}

\* int(port); -1 stands for ValueError.
IntOf(t) == IF t = "80" THEN 80 ELSE -1

\* The second field of the result line the modem may send for an open.
ScanCodes == {0, 566, 565}

\* re.search(r'\+QIOPEN:\s*\d+,(\d+)', resp): group 1 of the first match,
\* -1 for no match.
ResultCode(r) ==
  IF HasKind(r, "+QIOPEN: 0,")
  THEN r[Min({i \in 1..Len(r) : r[i][1] = "+QIOPEN: 0,"})][2]
  ELSE -1

ScanRest == <<mainpc, rx, hvars, mvars, uvars, cvars>>

\* A scanner whose flag is set once, before the loop over the hosts.
ScanHostKeepsFlag ==
  /\ spc = "host"
  /\ IF ipi > Len(ips)
     THEN /\ spc' = "done"
          /\ UNCHANGED <<pti, codes, hostOut>>
     ELSE /\ spc' = "port"
          /\ pti' = 1
          /\ codes' = <<>>
          /\ hostOut' = <<>>
  /\ UNCHANGED <<ips, ports, ipi, seen_valid, sresp, srx, sconn, stx, probed>>
  /\ UNCHANGED ScanRest

\* for ip in ips: seen_valid = False; after the last host, ser.close().
ScanHost ==
  /\ spc = "host"
  /\ IF ipi > Len(ips)
     THEN /\ spc' = "done"
          /\ UNCHANGED <<pti, seen_valid, codes, hostOut>>
     ELSE /\ spc' = "port"
          /\ pti' = 1
          /\ seen_valid' = FALSE
          /\ codes' = <<>>
          /\ hostOut' = <<>>
  /\ UNCHANGED <<ips, ports, ipi, sresp, srx, sconn, stx, probed>>
  /\ UNCHANGED ScanRest

\* for port in ports: port_int = int(port); an entry that is no number is
\* skipped.  When the list is through, the next host follows.
ScanPort ==
  /\ spc = "port"
  /\ IF pti > Len(ports)
     THEN /\ ipi' = ipi + 1
          /\ spc' = "host"
          /\ UNCHANGED <<pti, probed>>
     ELSE IF IntOf(ports[pti]) < 0
     THEN /\ pti' = pti + 1
          /\ UNCHANGED <<spc, ipi, probed>>
     ELSE /\ probed' = Append(probed, <<ips[ipi], IntOf(ports[pti])>>)
          /\ spc' = "open_cmd"
          /\ UNCHANGED <<ipi, pti>>
  /\ UNCHANGED <<ips, ports, seen_valid, sresp, srx, sconn, stx, codes, hostOut>>
  /\ UNCHANGED ScanRest

\* send_at_command(AT+QIOPEN=1,0,"TCP",ip,port_int,0,0): ser.write().  The
\* modem answers OK and starts to connect.
ScanOpenWrite ==
  /\ spc = "open_cmd"
  /\ stx' = Append(stx, <<"OPEN", ips[ipi], IntOf(ports[pti])>>)
  /\ srx' = srx \o <<OK, NL>>
  /\ sconn' = "connecting"
  /\ spc' = "open_read"
  /\ UNCHANGED <<ips, ports, ipi, pti, seen_valid, sresp, probed, codes, hostOut>>
  /\ UNCHANGED ScanRest

\* The modem reports the outcome of the connect, at a time of its own.
ScanModemResult ==
  /\ sconn = "connecting"
  /\ \E c \in ScanCodes :
       /\ srx' = srx \o <<QIOPEN(c), NL>>
       /\ sconn' = IF c = 0 THEN "open" ELSE "idle"
  /\ UNCHANGED <<spc, ips, ports, ipi, pti, seen_valid, sresp, stx, probed,
                 codes, hostOut>>
  /\ UNCHANGED ScanRest

\* send_at_command: time.sleep(2) is over; resp = ser.read_all().
ScanOpenRead ==
  /\ spc = "open_read"
  /\ sresp' = srx
  /\ srx' = <<>>
  /\ spc' = "close_cmd"
  /\ UNCHANGED <<ips, ports, ipi, pti, seen_valid, sconn, stx, probed, codes,
                 hostOut>>
  /\ UNCHANGED ScanRest

\* A scanner that closes only the connections it saw open.
ScanCloseWriteIfOpen ==
  /\ spc = "close_cmd"
  /\ IF ResultCode(sresp) = 0
     THEN /\ stx' = Append(stx, <<"CLOSE", 0, 0>>)
          /\ srx' = srx \o <<OK, NL>>
     ELSE UNCHANGED <<stx, srx>>
  /\ sconn' = "idle"
  /\ spc' = "close_read"
  /\ UNCHANGED <<ips, ports, ipi, pti, seen_valid, sresp, probed, codes, hostOut>>
  /\ UNCHANGED ScanRest

\* send_at_command(AT+QICLOSE=0,10): ser.write().  The modem drops the
\* connection, or the attempt, and answers OK.
ScanCloseWrite ==
  /\ spc = "close_cmd"
  /\ stx' = Append(stx, <<"CLOSE", 0, 0>>)
  /\ srx' = srx \o <<OK, NL>>
  /\ sconn' = "idle"
  /\ spc' = "close_read"
  /\ UNCHANGED <<ips, ports, ipi, pti, seen_valid, sresp, probed, codes, hostOut>>
  /\ UNCHANGED ScanRest

\* send_at_command: time.sleep(2) is over; ser.read_all(), value not kept.
ScanCloseRead ==
  /\ spc = "close_read"
  /\ srx' = <<>>
  /\ spc' = "eval"
  /\ UNCHANGED <<ips, ports, ipi, pti, seen_valid, sresp, sconn, stx, probed,
                 codes, hostOut>>
  /\ UNCHANGED ScanRest

\* Lines 72-88: code2 from resp, the report, seen_valid, and break on DOWN.
ScanEval ==
  /\ spc = "eval"
  /\ LET code2 == ResultCode(sresp)
     IN  /\ codes' = Append(codes, code2)
         /\ IF code2 = 0
            THEN /\ hostOut' = Append(hostOut, "OPEN")
                 /\ seen_valid' = TRUE
                 /\ spc' = "sleep"
                 /\ UNCHANGED ipi
            ELSE IF code2 = 566
            THEN /\ hostOut' = Append(hostOut, "CLOSED")
                 /\ seen_valid' = TRUE
                 /\ spc' = "sleep"
                 /\ UNCHANGED ipi
            ELSE IF ~seen_valid
            THEN /\ hostOut' = Append(hostOut, "DOWN")
                 /\ ipi' = ipi + 1
                 /\ spc' = "host"
                 /\ UNCHANGED seen_valid
            ELSE /\ hostOut' = Append(hostOut, "UNKNOWN")
                 /\ spc' = "sleep"
                 /\ UNCHANGED <<ipi, seen_valid>>
  /\ UNCHANGED <<ips, ports, pti, sresp, srx, sconn, stx, probed>>
  /\ UNCHANGED ScanRest

\* time.sleep(1), and the loop over the ports goes on.
ScanSleep ==
  /\ spc = "sleep"
  /\ pti' = pti + 1
  /\ spc' = "port"
  /\ UNCHANGED <<ips, ports, ipi, seen_valid, sresp, srx, sconn, stx, probed,
                 codes, hostOut>>
  /\ UNCHANGED ScanRest

ScanInit ==
  /\ RelayInit
  /\ ChunkIdle
  /\ ScanStart
  /\ ips \in {[i \in 1..n |-> i] : n \in 0..MaxHosts}
  /\ ports \in SeqsUpTo(PortTexts, MaxPorts)

ScanNext ==
  \/ ScanHost
  \/ ScanPort
  \/ ScanOpenWrite
  \/ ScanModemResult
  \/ ScanOpenRead
  \/ ScanCloseWrite
  \/ ScanCloseRead
  \/ ScanEval
  \/ ScanSleep

SpecScan == ScanInit /\ [][ScanNext]_vars

\* ================================================================== claims
IsPrefix(a, b) == Len(a) <= Len(b) /\ SubSeq(b, 1, Len(a)) = a

RECURSIVE Flatten(_)
Flatten(ss) == IF ss = <<>> THEN <<>> ELSE Head(ss) \o Flatten(Tail(ss))

\* Handler h is inside _send_at (command written, response awaited) or inside
\* send_raw (command, prompt, payload, acknowledgment).
InExchange(h) == pc[h] \in {"open_at", "close_at", "prompt", "ack"}

\* C1: at most one command exchange is in progress on the serial channel at
\* any instant: no two handlers are inside _send_at or send_raw together.
ExclusiveExchange ==
  \A g, h \in Handlers : (InExchange(g) /\ InExchange(h)) => g = h

\* Handler h is between its successful open and its close.  Every handler
\* uses modem.sock_id, so holding is holding the same socket id.
Holds(h) == pc[h] \in Relaying

\* C2: a modem socket id is held by at most one client connection: no two
\* handlers are both between a successful open and their close.
OneHolderPerSocket ==
  \A g, h \in Handlers : (Holds(g) /\ Holds(h)) => g = h

\* C5: the chunks handed to send_raw are non-empty, at most MAX_CHUNK_SIZE
\* long, and concatenated in send order they are the bytes of the payload up
\* to the loop's offset; once the loop has finished, they are the payload.
ChunksRebuildPayload ==
  /\ \A i \in 1..Len(csent) :
       Len(csent[i]) >= 1 /\ Len(csent[i]) <= MAX_CHUNK_SIZE
  /\ coffset <= Len(cdata)
  /\ Flatten(csent) = SubSeq(cdata, 1, coffset)
  /\ cpc = "sent" => Flatten(csent) = cdata

\* C5 witness: a read of two full chunks and one byte has been sent whole.
ThreeChunksSent ==
  /\ cpc = "sent"
  /\ Len(cdata) = 2 * MAX_CHUNK_SIZE + 1
  /\ Len(csent) = 3
  /\ Len(csent[3]) = 1

RECURSIVE IsSubseq(_, _)
IsSubseq(a, b) ==
  IF a = <<>> THEN TRUE
  ELSE IF b = <<>> THEN FALSE
  ELSE IF Head(a) = Head(b) THEN IsSubseq(Tail(a), Tail(b))
  ELSE IsSubseq(a, Tail(b))

\* What handler h has relayed to its client: everything after the method
\* reply and the CONNECT reply.
Delivered(h) == SubSeq(clientOut[h], 3, Len(clientOut[h]))

\* C3: every payload announced for a socket while its relay was in the
\* Relaying phase has been written to the owning client, verbatim and in
\* order, by the time that relay waits in select with nothing left on the
\* channel; no exchange on the way has swallowed it.
NotificationsDelivered ==
  \A h \in Handlers :
    (pc[h] = "select" /\ rx = <<>> /\ mOwed = <<>>)
      => IsSubseq(emitted[h], Delivered(h))

\* C4: once a handler has read a notification line announcing n bytes, the
\* next n bytes taken from the channel are taken by that handler's payload
\* read: while it still misses bytes, nothing else removes bytes from the
\* channel.
PayloadReadUninterrupted ==
  [][\A h \in Handlers :
       (pc[h] = "payload" /\ ~IsPrefix(rx, rx')) => need'[h] < need[h]]_vars

\* C6: open fails only if no code-0 result reached it: when open returns
\* failure although the modem has emitted "+QIOPEN: <id>,0" for this
\* handler's command, that result is still unread on the channel (it came
\* too late for the last poll).
OpenResultHonoured ==
  [][\A h \in Handlers :
       (/\ opened[h] = "none"
        /\ opened'[h] = "fail"
        /\ mOwner = h
        /\ mState \in {"open", "rclosed"})
         => Contains(rx, QIOPEN(0))]_vars

\* C7: when the modem open has failed, the client has received the method
\* reply and then the reply beginning 05 01 and nothing else, and its
\* connection is closed.
OpenFailureEndsConnection ==
  \A h \in Handlers :
    opened[h] = "fail" =>
      /\ pc[h] = "done"
      /\ clientOut[h] = <<METHOD_REPLY, REPLY_FAILED>>

\* C7 witness: the first connection's open failed and its client got the
\* failure reply; the run has gone on, the second connection is relaying.
OpenFailedWhileOtherRelays ==
  /\ opened[1] = "fail"
  /\ clientOut[1][2] = REPLY_FAILED
  /\ pc[2] \in Relaying

\* The positions where a handler waits for bytes from the serial link.
SerialWaits == {"open_at", "close_at", "open_wait", "prompt", "ack", "payload"}

\* C8: no wait on the serial link is unbounded: when the modem has stopped
\* sending and the channel is empty, a handler waiting for a terminal token,
\* the prompt, the acknowledgment line, the open result or payload bytes can
\* still take a step (its timeout fires).
NoUnboundedWait ==
  \A h \in Handlers :
    (mState = "dead" /\ rx = <<>> /\ pc[h] \in SerialWaits) => ENABLED Step(h)

\* C9: the relay answers 05 00 and goes on to the CONNECT request only when
\* the client offered method 0x00.
NoAuthOnly ==
  \A h \in Handlers : pc[h] = "request" => 0 \in methods[h]

\* Handler h read a request header that handle_client refuses.
Refused(h) == hdr[h] # <<0, 0>> /\ (hdr[h][1] # 1 \/ hdr[h][2] \notin {1, 3})

\* C10: a request with a command other than CONNECT, or with an address type
\* other than IPv4 and domain name, has been answered with a SOCKS failure
\* reply when its connection is closed.
RefusedRequestGetsReply ==
  \A h \in Handlers :
    (pc[h] = "done" /\ Refused(h)) => Len(clientOut[h]) >= 2

\* C11: after a connection on the socket id has been closed or has failed and
\* the id is used by a new open, nothing that arrived on the earlier
\* connection is written to the new occupant's client: no byte of a
\* connection made by a handler that had ended when h wrote its open command
\* is among the payloads relayed to h's client.
NoStaleDelivery ==
  \A h, g \in Handlers :
    g \in prev[h] => ~Contains(Flatten(Delivered(h)), <<"x", g>>)

\* C12: whenever a relay that reached the Relaying phase has ended, for
\* whatever reason, AT+QICLOSE has been written for its socket and the client
\* connection is closed.
RelayEndClosesSocket ==
  \A h \in Handlers :
    (pc[h] = "done" /\ opened[h] = "ok")
      => (Contains(wrote[h], "CLOSE") /\ csock[h] = "closed")

\* C13: the payload and the terminator are written only after the prompt has
\* been read, and a send whose prompt does not come fails with the prompt
\* timeout: while a handler waits for the prompt and the modem sends nothing
\* more, the wait can still end.
PromptWaitEnds ==
  \A h \in Handlers :
    (pc[h] = "prompt" /\ rx = <<>> /\ mState = "dead") => ENABLED PromptRead(h)

\* C14: after payload and terminator are written, send_raw takes bytes from
\* the channel one at a time up to and including the first line terminator
\* and nothing beyond it, and then reports the chunk as sent (the loop's
\* offset advances) whatever the line holds; it raises only while the line
\* is still incomplete.
AckTakesOneLine ==
  [][\A h \in Handlers :
       pc[h] = "ack" =>
         /\ pc'[h] \in {"send_cmd", "readline", "select"}
              => /\ rx # <<>> /\ Head(rx) = NL /\ rx' = Tail(rx)
                 /\ ~Contains(line[h], NL)
                 /\ offset'[h] = offset[h] + Len(Chunk(data[h], offset[h]))
         /\ pc'[h] = "done" => (rx # <<>> /\ Head(rx) # NL)
         /\ (pc'[h] = "ack" /\ line'[h] # line[h])
              => /\ rx # <<>> /\ Head(rx) # NL /\ rx' = Tail(rx)
                 /\ line'[h] = Append(line[h], Head(rx))]_vars

\* C14 witness: the payload is written, the acknowledgment read has taken the
\* text "SEND FAIL" and the line terminator is the next byte.
AckLineIsErrorText ==
  /\ pc[1] = "ack"
  /\ wrote[1] = <<"OPEN", "SEND", "DATA">>
  /\ line[1] = <<SENDFAIL>>
  /\ rx # <<>>
  /\ Head(rx) = NL

\* C15: within one relay the two directions do not block each other: while
\* the handler waits inside send_raw for the prompt or the acknowledgment and
\* a notification for its connection is on the channel, a step of the
\* notification path is possible; and while it waits for missing payload
\* bytes and its client has data to send, a step of the send path is
\* possible.
DirectionsIndependent ==
  \A h \in Handlers :
    /\ (pc[h] \in {"prompt", "ack"} /\ mOwner = h
        /\ HasKind(rx, "+QIURC: recv"))
         => ENABLED (SelectSerial(h) \/ LineRead(h) \/ PayloadRead(h))
    /\ (pc[h] = "payload" /\ rx = <<>> /\ sends[h] < MaxSends)
         => ENABLED (SelectClient(h) \/ SendCmd(h))

\* The phase of a handler position: 0 not accepted yet, 1 Handshaking,
\* 2 Connecting, 3 Relaying, 4 Closing, 5 Closed.
Phase(p) ==
  IF p = "idle" THEN 0
  ELSE IF p \in {"greet", "request"} THEN 1
  ELSE IF p \in {"open_cmd", "open_at", "open_wait"} THEN 2
  ELSE IF p \in Relaying THEN 3
  ELSE IF p \in {"close_cmd", "close_at"} THEN 4
  ELSE 5

\* C16: a handler never moves to an earlier phase and enters Relaying only
\* from Connecting, in the step in which the open returns success and the
\* succeeded reply is sent; the succeeded reply is the second thing the client
\* gets and is sent only when the open has returned success; and nothing is
\* relayed to the client, and no send is written to the modem, unless that
\* reply has been sent.
PhaseOrder ==
  [][\A h \in Handlers :
       /\ Phase(pc'[h]) >= Phase(pc[h])
       /\ (Phase(pc'[h]) = 3 /\ Phase(pc[h]) # 3)
            => /\ Phase(pc[h]) = 2
               /\ opened'[h] = "ok"
               /\ clientOut'[h] = Append(clientOut[h], REPLY_SUCCEEDED)
       /\ Contains(clientOut'[h], REPLY_SUCCEEDED)
            => /\ opened'[h] = "ok"
               /\ Len(clientOut[h]) >= 1
               /\ clientOut'[h][2] = REPLY_SUCCEEDED
       /\ (Len(clientOut'[h]) > 2 \/ Contains(wrote'[h], "SEND")
           \/ Contains(wrote'[h], "DATA"))
            => (Len(clientOut[h]) >= 2 /\ clientOut[h][2] = REPLY_SUCCEEDED)]_vars

\* C16 witness: a handler has gone through every phase: it opened, relayed a
\* payload in each direction, wrote the close command and ended.
WentThroughAllPhases ==
  /\ pc[1] = "done"
  /\ opened[1] = "ok"
  /\ wrote[1] = <<"OPEN", "SEND", "DATA", "CLOSE">>
  /\ Len(clientOut[1]) = 3
  /\ clientOut[1][2] = REPLY_SUCCEEDED

\* C17: when the relay's readline() has returned a line that is neither a
\* data notification nor a closed notification, the line is dropped: the
\* handler goes back to select, nothing is written to any client, nothing is
\* written to the modem, and only the line's terminator leaves the channel.
UnmatchedLineDiscarded ==
  [][\A h \in Handlers :
       (/\ pc[h] = "readline"
        /\ pc'[h] # "readline"
        /\ ~IsRecvLine(line[h])
        /\ ~IsClosedLine(line[h]))
         => /\ pc'[h] = "select"
            /\ clientOut' = clientOut
            /\ wrote' = wrote
            /\ mvars' = mvars
            /\ rx' = Tail(rx)]_vars

\* C17 witness: the relay's readline() holds the text "SEND OK", which is
\* neither kind of notification, and the line terminator is the next byte.
UnmatchedLineRead ==
  /\ pc[1] = "readline"
  /\ opened[1] = "ok"
  /\ line[1] = <<SENDOK>>
  /\ rx # <<>>
  /\ Head(rx) = NL

\* C19: on every way out of handle_client the client socket is closed, and
\* nothing is written to a client socket that has been closed.
ClientClosedOnExit ==
  [][\A h \in Handlers :
       /\ pc'[h] = "done" => csock'[h] = "closed"
       /\ csock[h] = "closed"
            => (clientOut'[h] = clientOut[h] /\ csock'[h] = "closed")]_vars

\* C19 witness: one handler has left by TimeoutError from send_raw (its last
\* write is AT+QISEND or the payload and no close command), the other on a
\* failed open; both client sockets are closed.
ExitedByTimeoutAndByFailure ==
  /\ pc[1] = "done" /\ csock[1] = "closed"
  /\ opened[1] = "ok" /\ ~Contains(wrote[1], "CLOSE")
  /\ pc[2] = "done" /\ csock[2] = "closed"
  /\ opened[2] = "fail"

\* C18: the scanner writes one open/close pair per target: the commands on
\* the channel alternate open, close, open, close; the k-th open is the open
\* for the k-th target probed; and whenever the scanner is not inside a
\* probe, every target probed has had its open and its close.
OnePairPerTarget ==
  /\ \A i \in 1..Len(stx) :
       stx[i][1] = IF i % 2 = 1 THEN "OPEN" ELSE "CLOSE"
  /\ \A k \in 1..Len(probed) :
       2 * k - 1 <= Len(stx)
         => stx[2 * k - 1] = <<"OPEN", probed[k][1], probed[k][2]>>
  /\ Len(stx) <= 2 * Len(probed)
  /\ Len(stx) >= 2 * Len(probed) - 2
  /\ spc \notin {"open_cmd", "open_read", "close_cmd"}
       => Len(stx) = 2 * Len(probed)

\* C18 witness: the scan of two hosts is over, with four targets probed and
\* eight commands written.
TwoHostsScanned ==
  /\ spc = "done"
  /\ Len(ips) = 2
  /\ Len(probed) = 4
  /\ probed[1][1] # probed[4][1]
  /\ Len(stx) = 8

\* What lines 76-88 are to print for the i-th port probed on the current
\* host, from the codes of that host so far.
Expected(i) ==
  IF codes[i] = 0 THEN "OPEN"
  ELSE IF codes[i] = 566 THEN "CLOSED"
  ELSE IF \E j \in 1..(i - 1) : codes[j] \in {0, 566} THEN "UNKNOWN"
  ELSE "DOWN"

\* C20: for each host, a port is reported DOWN exactly when its code is
\* neither 0 nor 566 and no earlier port of the host gave 0 or 566, and DOWN
\* ends the host (it is the last report and the scanner is back at the loop
\* over the hosts); after a 0 or 566 an unrecognized code is reported UNKNOWN and the
\* host is left only when its port list is through; seen_valid is true
\* exactly when a port of the current host gave 0 or 566.
HostVerdicts ==
  /\ Len(hostOut) = Len(codes)
  /\ \A i \in 1..Len(codes) : hostOut[i] = Expected(i)
  /\ \A i \in 1..Len(hostOut) :
       hostOut[i] = "DOWN" => (i = Len(hostOut) /\ spc \in {"host", "done"})
  /\ (spc \in {"host", "done"} /\ hostOut # <<>>
      /\ hostOut[Len(hostOut)] # "DOWN")
       => pti > Len(ports)
  /\ spc \in {"port", "open_cmd", "open_read", "close_cmd", "close_read",
              "eval", "sleep"}
       => (seen_valid <=> \E i \in 1..Len(codes) : codes[i] \in {0, 566})

\* C20 witness: the first host had two ports probed, so its first port gave
\* 0 or 566 and set the flag; the second host's first port gave an
\* unrecognized code and the host is reported DOWN, its second port skipped.
SecondHostDownAfterValidFirst ==
  /\ spc = "host"
  /\ ipi = 3
  /\ Len(ports) = 2
  /\ Len(probed) = 3
  /\ probed[2][1] = ips[1]
  /\ hostOut = <<"DOWN">>

====
